---- MODULE Spec2Model ----
(***************************************************************************)
(* Model of smtp_proxy_server/server.py: the SMTP AUTH hook                *)
(* (CustomSMTPHandler.authenticator) and the per-message handler           *)
(* (CustomSMTPHandler.handle_DATA) running on one asyncio event loop.      *)
(*                                                                         *)
(* Conventions.  Text (str) and bytes are sequences of naturals (code      *)
(* points, byte values).  An optional value (Python None or a value) is a  *)
(* sequence of length 0 (None) or 1 (the value).                           *)
(***************************************************************************)
EXTENDS Naturals, Sequences, FiniteSets

None == <<>>
Some(x) == <<x>>

(***************************************************************************)
(* Bounds of the explored inputs.                                          *)
(***************************************************************************)
MaxNodes == 4       \* nodes (containers and leaves) of a MIME tree
MaxToEntries == 2   \* comma separated entries of a To header
MaxRcpts == 2       \* RCPT TO addresses of an envelope

Sessions == {"s1", "s2"}

\* "a@x", "b@x"
Addrs == {<<97, 64, 120>>, <<98, 64, 120>>}

(***************************************************************************)
(* bytes.decode(): strict UTF-8.  One-byte and two-byte forms are decoded, *)
(* every other byte sequence raises UnicodeDecodeError.                    *)
(***************************************************************************)
RECURSIVE Utf8Ok(_)
Utf8Ok(b) ==
    IF b = <<>> THEN TRUE
    ELSE IF b[1] < 128 THEN Utf8Ok(Tail(b))
    ELSE IF /\ b[1] >= 194 /\ b[1] <= 223 /\ Len(b) >= 2
            /\ b[2] >= 128 /\ b[2] <= 191
         THEN Utf8Ok(Tail(Tail(b)))
    ELSE FALSE

RECURSIVE Utf8Text(_)
Utf8Text(b) ==
    IF b = <<>> THEN <<>>
    ELSE IF b[1] < 128 THEN <<b[1]>> \o Utf8Text(Tail(b))
    ELSE <<(b[1] - 192) * 64 + (b[2] - 128)>> \o Utf8Text(Tail(Tail(b)))

\* [ok |-> TRUE, text |-> str] or [ok |-> FALSE, exc |-> exception class]
BytesDecode(b) ==
    IF Utf8Ok(b) THEN [ok |-> TRUE, text |-> Utf8Text(b)]
    ELSE [ok |-> FALSE, exc |-> "UnicodeDecodeError"]

(***************************************************************************)
(* Parsed message (email.message_from_string): a MIME tree and the three   *)
(* headers the handler reads.  A node is a leaf with a content type and    *)
(* the bytes get_payload(decode=True) yields, or a multipart container     *)
(* with ordered children (get_payload(decode=True) is None for it).        *)
(***************************************************************************)
Leaf(ctype, payload) ==
    [multipart |-> FALSE, ctype |-> ctype, payload |-> payload, parts |-> <<>>]
Multipart(parts) ==
    [multipart |-> TRUE, ctype |-> "multipart/mixed", payload |-> <<>>, parts |-> parts]

\* "", "a", "é" (two bytes, one character), "aa"
TextPayloads == {<<>>, <<97>>, <<195, 169>>, <<97, 97>>}

Leaves ==
    {Leaf(t, p) : t \in {"text/plain", "text/html"}, p \in TextPayloads}
    \cup {Leaf("application/octet-stream", <<97>>)}

\* Trees(n): the trees of exactly n nodes; Forests(n): the sequences of trees
\* of n nodes in total.
RECURSIVE Trees(_), Forests(_)
Trees(n) ==
    (IF n = 1 THEN Leaves ELSE {}) \cup {Multipart(f) : f \in Forests(n - 1)}
Forests(n) ==
    IF n = 0 THEN {<<>>}
    ELSE UNION {{<<t>> \o f : t \in Trees(k), f \in Forests(n - k)} : k \in 1..n}

MimeTrees == UNION {Trees(n) : n \in 1..MaxNodes}

\* Message.walk(): the node itself, then every subpart's walk, in order.
RECURSIVE walk(_), walk_parts(_)
walk(node) == <<node>> \o walk_parts(node.parts)
walk_parts(parts) ==
    IF parts = <<>> THEN <<>> ELSE walk(Head(parts)) \o walk_parts(Tail(parts))

\* Lines 55-59 (and the condition of line 64): the part is text/plain or
\* text/html and its payload is truthy.  (EligibleNoEmptyCheck: the same
\* without lines 58-59.)
EligibleNoEmptyCheck(part) == part.ctype \in {"text/plain", "text/html"}
Eligible(part) ==
    /\ part.ctype \in {"text/plain", "text/html"}
    /\ part.payload # <<>>

\* The parts handle_DATA looks at: every node of walk() when the message is
\* multipart, the message itself otherwise.
Candidates(msg) == IF msg.multipart THEN walk(msg) ELSE <<msg>>

\* Lines 50-68: content_list, or the exception of the first eligible part
\* whose payload.decode() raises.
RECURSIVE collect(_, _)
collect(parts, acc) ==
    IF parts = <<>> THEN [ok |-> TRUE, list |-> acc]
    ELSE IF ~Eligible(Head(parts)) THEN collect(Tail(parts), acc)
    ELSE LET d == BytesDecode(Head(parts).payload) IN
         IF ~d.ok THEN [ok |-> FALSE, exc |-> d.exc]
         ELSE collect(Tail(parts),
                      Append(acc, [type |-> Head(parts).ctype, value |-> d.text]))

content_list(msg) == collect(Candidates(msg), <<>>)

\* key=lambda x: (x["type"] == "text/html", len(x["value"])), compared as
\* Python compares tuples.  (KeyGreaterLengthFirst: the key with its two
\* components swapped.)
KeyGreaterLengthFirst(a, b) ==
    \/ Len(a.value) > Len(b.value)
    \/ /\ Len(a.value) = Len(b.value)
       /\ a.type = "text/html" /\ b.type # "text/html"
KeyGreater(a, b) ==
    \/ a.type = "text/html" /\ b.type # "text/html"
    \/ /\ (a.type = "text/html") = (b.type = "text/html")
       /\ Len(a.value) > Len(b.value)

\* max(): the first element no later element is greater than.
RECURSIVE max_from(_, _)
max_from(list, best) ==
    IF list = <<>> THEN best
    ELSE max_from(Tail(list), IF KeyGreater(Head(list), best) THEN Head(list) ELSE best)

py_max(list) == max_from(Tail(list), Head(list))

(***************************************************************************)
(* Headers.  A raw header value is a sequence of tokens: a display-name    *)
(* word (unencoded, charset "", or an RFC 2047 encoded word carrying its   *)
(* charset and the bytes of its transfer-decoded text), an address in      *)
(* angle brackets, a bare address, or a comma.  msg[name] is None when the *)
(* message has no such header.                                             *)
(***************************************************************************)
Word(charset, bytes) == [t |-> "word", charset |-> charset, val |-> bytes]
Angle(addr) == [t |-> "angle", charset |-> "", val |-> addr]
Bare(addr) == [t |-> "addr", charset |-> "", val |-> addr]
Comma == [t |-> "comma", charset |-> "", val |-> <<>>]

\* str(make_header(decode_header(value))): every encoded word is decoded
\* with its charset, strictly.  None is not a string (TypeError), an unknown
\* charset raises LookupError, undecodable bytes raise UnicodeDecodeError.
RECURSIVE decode_tokens(_, _)
decode_tokens(toks, acc) ==
    IF toks = <<>> THEN [ok |-> TRUE, toks |-> acc]
    ELSE LET h == Head(toks) IN
         IF h.t # "word" \/ h.charset = ""
         THEN decode_tokens(Tail(toks), Append(acc, h))
         ELSE IF h.charset # "utf-8" THEN [ok |-> FALSE, exc |-> "LookupError"]
         ELSE LET d == BytesDecode(h.val) IN
              IF ~d.ok THEN [ok |-> FALSE, exc |-> d.exc]
              ELSE decode_tokens(Tail(toks), Append(acc, Word("", d.text)))

decode_header(value) ==
    IF value = None THEN [ok |-> FALSE, exc |-> "TypeError"]
    ELSE decode_tokens(value[1], <<>>)

\* The text of a decoded header value whose tokens are words.
RECURSIVE header_text(_)
header_text(toks) ==
    IF toks = <<>> THEN <<>> ELSE Head(toks).val \o header_text(Tail(toks))

\* str.split(","): the pieces between the commas; never an empty list.
RECURSIVE split_from(_, _, _)
split_from(toks, piece, acc) ==
    IF toks = <<>> THEN Append(acc, piece)
    ELSE IF Head(toks).t = "comma" THEN split_from(Tail(toks), <<>>, Append(acc, piece))
    ELSE split_from(Tail(toks), Append(piece, Head(toks)), acc)

split_comma(toks) == split_from(toks, <<>>, <<>>)

\* email.utils.parseaddr on one piece: (display name, address); ('', '')
\* when the piece holds no address.
parseaddr(piece) ==
    IF Len(piece) = 1 THEN [name |-> <<>>, mail |-> piece[1].val]
    ELSE IF Len(piece) = 2 /\ piece[1].t = "word" /\ piece[2].t = "angle"
         THEN [name |-> piece[1].val, mail |-> piece[2].val]
    ELSE [name |-> <<>>, mail |-> <<>>]

\* A dict is a function; d[k] = v and d.get(k).  (dict_set_keep_first:
\* d.setdefault(k, v).)
EmptyDict == [k \in {} |-> <<>>]
dict_set_keep_first(d, k, v) ==
    [x \in DOMAIN d \cup {k} |-> IF x \in DOMAIN d THEN d[x] ELSE v]
dict_set(d, k, v) == [x \in DOMAIN d \cup {k} |-> IF x = k THEN v ELSE d[x]]
dict_get(d, k) == IF k \in DOMAIN d THEN Some(d[k]) ELSE None

\* Lines 81-86: the address -> display name map of the To header's pieces.
RECURSIVE to_mail_map_from(_, _)
to_mail_map_from(pieces, d) ==
    IF pieces = <<>> THEN d
    ELSE LET pa == parseaddr(Head(pieces)) IN
         to_mail_map_from(Tail(pieces), dict_set(d, pa.mail, pa.name))

to_mail_map(decoded_to) == to_mail_map_from(split_comma(decoded_to), EmptyDict)

(***************************************************************************)
(* AUTH.  auth_data is a LoginPassword(login, password) or some other      *)
(* mechanism-specific value; AuthResult defaults: handled=True,            *)
(* auth_data=None.                                                         *)
(***************************************************************************)
LoginPassword(login, password) ==
    [type |-> "LoginPassword", login |-> login, password |-> password]
OtherData == [type |-> "bytes", login |-> <<>>, password |-> <<>>]

Mechanisms == {"LOGIN", "PLAIN", "CRAM-MD5"}
\* login "u", password "t"
AuthInputs == {Some(LoginPassword(<<117>>, <<116>>)), Some(OtherData), None}

isinstance_LoginPassword(x) == x # None /\ x[1].type = "LoginPassword"

AuthResult(success, handled, data) ==
    [success |-> success, handled |-> handled, auth_data |-> data]

\* (authenticatorAnyMechanism: the same without lines 30-32.)
authenticatorAnyMechanism(mechanism, data) ==
    IF ~isinstance_LoginPassword(data) THEN AuthResult(FALSE, FALSE, None)
    ELSE AuthResult(TRUE, TRUE, data)
authenticator(mechanism, data) ==
    IF mechanism \notin {"LOGIN", "PLAIN"} THEN AuthResult(FALSE, FALSE, None)
    ELSE IF ~isinstance_LoginPassword(data) THEN AuthResult(FALSE, FALSE, None)
    ELSE AuthResult(TRUE, TRUE, data)

(***************************************************************************)
(* handle_DATA up to the outbound call.  The outcome is a returned status  *)
(* line, a raised exception, or the request to post.                       *)
(***************************************************************************)
AuthRequired == <<"530 Authentication required">>
OneRecipient == <<"500 Only one recipient allowed">>
InvalidContent == <<"500 Invalid content">>
InternalError == <<"500 Internal server error">>
Ok250 == <<"250 OK">>
InternalErrorWith(code, text) ==
    <<"500 Internal server error code=[", code, "] text=[", text, "]">>

Return(line) == [kind |-> "return", v |-> line]
Raise(exc) == [kind |-> "raise", v |-> <<exc>>]
Post(body) == [kind |-> "post", v |-> body]

\* Line 42.  (NoAuthCheck: the same with the check left out.)
NoAuthCheck(auth) == TRUE
SessionAuthenticated(auth) == isinstance_LoginPassword(auth)

\* Line 44.  (AtLeastOneRecipient: the same with "< 1" for "!= 1".)
AtLeastOneRecipient(rcpt_tos) == Len(rcpt_tos) >= 1
SingleRecipient(rcpt_tos) == Len(rcpt_tos) = 1

\* Lines 76-99: the headers are decoded and send_body is built, in the order
\* the code evaluates them; the first exception ends the handler.
build_send_body(auth, to_mail, msg, body) ==
    LET from == decode_header(msg.From)
        to == decode_header(msg.To)
        token == IF auth = None THEN [ok |-> FALSE, exc |-> "AttributeError"]
                 ELSE BytesDecode(auth[1].password)
        subject == decode_header(msg.Subject)
    IN  IF ~from.ok THEN Raise(from.exc)
        ELSE IF ~to.ok THEN Raise(to.exc)
        ELSE IF ~token.ok THEN Raise(token.exc)
        ELSE IF ~subject.ok THEN Raise(subject.exc)
        ELSE Post([token |-> token.text,
                   from_name |-> parseaddr(from.toks).name,
                   to_name |-> dict_get(to_mail_map(to.toks), to_mail),
                   to_mail |-> to_mail,
                   subject |-> header_text(subject.toks),
                   is_html |-> body.type = "text/html",
                   content |-> body.value])

\* Lines 42-99.
handle_DATA_begin(auth, envelope) ==
    IF ~SessionAuthenticated(auth) THEN Return(AuthRequired)
    ELSE IF ~SingleRecipient(envelope.rcpt_tos) THEN Return(OneRecipient)
    ELSE LET msg == envelope.content
             cl == content_list(msg.body)
         IN  IF ~cl.ok THEN Raise(cl.exc)
             ELSE IF cl.list = <<>> THEN Return(InvalidContent)
             ELSE build_send_body(auth, envelope.rcpt_tos[1], msg, py_max(cl.list))

\* Lines 108-118: the status line for a response of requests.post.
\* (status_line_server_errors: the same with ">= 500" for "!= 200".)
status_line_server_errors(r) ==
    IF r.status_code >= 500 THEN InternalErrorWith(r.status_code, r.text) ELSE Ok250
status_line(r) ==
    IF r.status_code # 200 THEN InternalErrorWith(r.status_code, r.text) ELSE Ok250

\* Lines 114-116: the status line when requests.post (or reading the
\* response) raises.
status_line_exception(e) == InternalError

(***************************************************************************)
(* The explored envelopes.  envelope.content is modelled by the message    *)
(* email.message_from_string parses it to.                                 *)
(***************************************************************************)
RECURSIVE SeqsUpTo(_, _)
SeqsUpTo(S, n) ==
    IF n = 0 THEN {<<>>}
    ELSE SeqsUpTo(S, n - 1) \cup {Append(q, x) : q \in {r \in SeqsUpTo(S, n - 1) : Len(r) = n - 1}, x \in S}

RECURSIVE join_comma(_)
join_comma(entries) ==
    IF entries = <<>> THEN <<>>
    ELSE IF Len(entries) = 1 THEN entries[1]
    ELSE entries[1] \o <<Comma>> \o join_comma(Tail(entries))

\* "A", =?utf-8?b?w6k=?= ("é"), =?utf-8?b?/w==?= (not UTF-8),
\* =?x-unknown?b?QQ==?= (no such codec)
PlainA == Word("", <<65>>)
EncodedE == Word("utf-8", <<195, 169>>)
EncodedBad == Word("utf-8", <<255>>)
EncodedUnknown == Word("x-unknown", <<65>>)

AddrA == <<97, 64, 120>>
AddrB == <<98, 64, 120>>

ToEntries ==
    {<<Bare(a)>> : a \in Addrs} \cup {<<n, Angle(a)>> : n \in {PlainA, EncodedE}, a \in Addrs}
ToHeaders ==
    {None, Some(<<EncodedBad, Angle(AddrA)>>)}
    \cup {Some(join_comma(es)) : es \in SeqsUpTo(ToEntries, MaxToEntries)}
FromHeaders ==
    {None, Some(<<Bare(AddrB)>>)}
    \cup {Some(<<n, Angle(AddrB)>>) : n \in {PlainA, EncodedE, EncodedBad, EncodedUnknown}}
SubjectHeaders == {None, Some(<<>>), Some(<<PlainA>>), Some(<<EncodedE>>), Some(<<EncodedBad>>)}

Message(from, to, subject, body) ==
    [From |-> from, To |-> to, Subject |-> subject, body |-> body]
Envelope(rcpt_tos, content) ==
    [mail_from |-> AddrB, rcpt_tos |-> rcpt_tos, content |-> content]

PlainFrom == Some(<<PlainA, Angle(AddrB)>>)
PlainTo == Some(<<Bare(AddrA)>>)
PlainSubject == Some(<<PlainA>>)
PlainBody == Leaf("text/plain", <<97>>)

\* every MIME tree, and a part that is not UTF-8, under plain headers
ContentEnvelopes ==
    {Envelope(<<AddrA>>, Message(PlainFrom, PlainTo, PlainSubject, b)) :
        b \in MimeTrees \cup {Leaf("text/plain", <<255>>),
                              Multipart(<<Leaf("text/html", <<97>>), Leaf("text/plain", <<255>>)>>)}}
\* every To header, and every From and Subject header, over a plain body
HeaderEnvelopes ==
    {Envelope(<<r>>, Message(PlainFrom, t, PlainSubject, PlainBody)) : r \in Addrs, t \in ToHeaders}
    \cup {Envelope(<<AddrA>>, Message(f, PlainTo, u, PlainBody)) : f \in FromHeaders, u \in SubjectHeaders}
\* every recipient list, over an eligible and a non-eligible body
RecipientEnvelopes ==
    {Envelope(r, Message(PlainFrom, PlainTo, PlainSubject, b)) :
        r \in SeqsUpTo(Addrs, MaxRcpts),
        b \in {PlainBody, Leaf("application/octet-stream", <<97>>)}}

Envelopes == ContentEnvelopes \cup HeaderEnvelopes \cup RecipientEnvelopes

\* What the backend may answer to the POST.
Responses ==
    {[status_code |-> 200, text |-> "ok"],
     [status_code |-> 404, text |-> "not found"],
     [status_code |-> 500, text |-> ""]}
PostExceptions == {"ConnectionError"}

(***************************************************************************)
(* State.  The controller runs every session on one event loop; a handler  *)
(* occupies the loop from its call to its return, since handle_DATA holds  *)
(* no await and requests.post blocks the calling thread.                   *)
(***************************************************************************)
VARIABLES
    auth_data,   \* session.auth_data of every session
    running,     \* the session whose handler occupies the event loop, or None
    call,        \* that handler's call: the operation and its arguments, or None
    pc,          \* "idle", "posting" (inside requests.post), "returned", "raised"
    send_body,   \* the JSON body of the request being posted, or None
    res,         \* the outcome of requests.post: a response or an exception, or None
    result,      \* what handle_DATA returned or raised, or None
    auth_result  \* the AuthResult the authenticator returned, or None

vars == <<auth_data, running, call, pc, send_body, res, result, auth_result>>

Init ==
    /\ auth_data = [s \in Sessions |-> None]
    /\ running = None
    /\ call = None
    /\ pc = "idle"
    /\ send_body = None
    /\ res = None
    /\ result = None
    /\ auth_result = None

\* smtp_AUTH of the engine calls the authenticator for a session that is not
\* authenticated yet and stores the credentials of a successful result.
Auth(s) ==
    /\ running = None
    /\ auth_data[s] = None
    /\ \E m \in Mechanisms, d \in AuthInputs :
          LET r == authenticator(m, d) IN
          /\ call' = Some([op |-> "AUTH", mechanism |-> m, auth_data |-> d])
          /\ auth_result' = Some(r)
          /\ auth_data' = IF r.success THEN [auth_data EXCEPT ![s] = r.auth_data]
                          ELSE auth_data
    /\ running' = Some(s)
    /\ pc' = "returned"
    /\ UNCHANGED <<send_body, res, result>>

\* The engine calls handle_DATA; the handler runs up to requests.post.
HandleDATA(s) ==
    /\ running = None
    /\ \E e \in Envelopes :
          LET o == handle_DATA_begin(auth_data[s], e) IN
          /\ call' = Some([op |-> "DATA", envelope |-> e])
          /\ pc' = CASE o.kind = "return" -> "returned"
                     [] o.kind = "raise" -> "raised"
                     [] o.kind = "post" -> "posting"
          /\ result' = IF o.kind = "post" THEN None ELSE Some(o.v)
          /\ send_body' = IF o.kind = "post" THEN Some(o.v) ELSE None
    /\ running' = Some(s)
    /\ UNCHANGED <<auth_data, res, auth_result>>

\* requests.post returns a response; lines 108-118 map it to the status line.
PostReturns ==
    /\ pc = "posting"
    /\ \E r \in Responses :
          /\ res' = Some(r)
          /\ result' = Some(status_line(r))
    /\ pc' = "returned"
    /\ UNCHANGED <<auth_data, running, call, send_body, auth_result>>

\* requests.post raises; lines 114-116.
PostRaises ==
    /\ pc = "posting"
    /\ \E e \in PostExceptions :
          /\ res' = Some([exception |-> e])
          /\ result' = Some(status_line_exception(e))
    /\ pc' = "returned"
    /\ UNCHANGED <<auth_data, running, call, send_body, auth_result>>

\* The handler is over: the engine answers the peer and the loop is free.
Reply ==
    /\ pc \in {"returned", "raised"}
    /\ running' = None
    /\ call' = None
    /\ pc' = "idle"
    /\ send_body' = None
    /\ res' = None
    /\ result' = None
    /\ auth_result' = None
    /\ UNCHANGED auth_data

Next ==
    \/ \E s \in Sessions : Auth(s)
    \/ \E s \in Sessions : HandleDATA(s)
    \/ PostReturns
    \/ PostRaises
    \/ Reply

Spec == Init /\ [][Next]_vars

\* The event loop runs a handler that can continue; the backend owes nothing.
FairSpec == Spec /\ WF_vars(Reply)

(***************************************************************************)
(* Properties.                                                             *)
(***************************************************************************)
InData == call # None /\ call[1].op = "DATA"
InAuth == call # None /\ call[1].op = "AUTH"
CurrentAuth == auth_data[running[1]]
CurrentEnvelope == call[1].envelope
HasCredentials(a) == a # None /\ a[1].type = "LoginPassword"

\* The eligible parts of a MIME tree, depth first: the leaves of type
\* text/plain or text/html with a non-empty payload.
RECURSIVE EligibleParts(_), EligiblePartsOfAll(_)
EligibleParts(node) ==
    IF node.multipart THEN EligiblePartsOfAll(node.parts)
    ELSE IF node.ctype \in {"text/plain", "text/html"} /\ Len(node.payload) > 0
         THEN <<node>>
    ELSE <<>>
EligiblePartsOfAll(nodes) ==
    IF nodes = <<>> THEN <<>>
    ELSE EligibleParts(Head(nodes)) \o EligiblePartsOfAll(Tail(nodes))

\* Their types and decoded texts (of a message every eligible part of which
\* is UTF-8).
EligibleTexts(node) ==
    LET p == EligibleParts(node)
    IN  [i \in 1..Len(p) |-> [type |-> p[i].ctype, value |-> Utf8Text(p[i].payload)]]

\* (is_html, text length) of a is greater than that of b.
Outranks(a, b) ==
    IF a.type = b.type THEN Len(a.value) > Len(b.value) ELSE a.type = "text/html"

\* C1: a message submitted on a session without a login/password credential
\* pair is answered exactly '530 Authentication required', whatever its
\* recipients and content.
C1_UnauthenticatedGets530 ==
    (InData /\ ~HasCredentials(CurrentAuth)) =>
        (pc = "returned" /\ result = Some(AuthRequired) /\ send_body = None)

C1_Witness ==
    /\ InData /\ ~HasCredentials(CurrentAuth)
    /\ Len(CurrentEnvelope.rcpt_tos) = 0
    /\ result = Some(AuthRequired)

\* C2 as stated: every message with 0 or with 2 or more recipients is answered
\* exactly '500 Only one recipient allowed'.
C2_AnyRecipientCountMismatchGets500 ==
    (InData /\ Len(CurrentEnvelope.rcpt_tos) # 1) =>
        (pc = "returned" /\ result = Some(OneRecipient))

\* C2 (amended): on a session that carries a login/password credential pair,
\* every message with 0 or with 2 or more recipients is answered exactly
\* '500 Only one recipient allowed'.
C2_AuthenticatedRecipientCountMismatchGets500 ==
    (InData /\ HasCredentials(CurrentAuth) /\ Len(CurrentEnvelope.rcpt_tos) # 1) =>
        (pc = "returned" /\ result = Some(OneRecipient) /\ send_body = None)

C2_Witness ==
    /\ InData /\ HasCredentials(CurrentAuth)
    /\ Len(CurrentEnvelope.rcpt_tos) = 2
    /\ result = Some(OneRecipient)

\* C3: the forwarded body is the first eligible part, in depth-first order,
\* that no eligible part outranks in (is_html, decoded text length); is_html
\* tells whether that part is text/html.
C3_BodyIsFirstMaximalCandidate ==
    (InData /\ pc = "posting") =>
        LET c == EligibleTexts(CurrentEnvelope.content.body)
            b == [type |-> IF send_body[1].is_html THEN "text/html" ELSE "text/plain",
                  value |-> send_body[1].content]
        IN  \E i \in 1..Len(c) :
               /\ c[i] = b
               /\ \A j \in 1..Len(c) : ~Outranks(c[j], c[i])
               /\ \A j \in 1..(i - 1) : Outranks(c[i], c[j])

\* A short text/html part inside a nested multipart is chosen over a longer
\* text/plain part that comes before it.
C3_Witness ==
    /\ InData /\ pc = "posting"
    /\ send_body[1].is_html
    /\ LET body == CurrentEnvelope.content.body
           c == EligibleTexts(body)
       IN  /\ body.multipart /\ Len(body.parts) = 2
           /\ body.parts[2].multipart
           /\ Len(c) = 2
           /\ c[1].type = "text/plain"
           /\ Len(c[1].value) > Len(send_body[1].content)

\* C4: on an authenticated session with one recipient, a message without any
\* eligible part is answered exactly '500 Invalid content' and nothing is
\* posted to the backend.
C4_NoEligiblePartGetsInvalidContent ==
    (/\ InData /\ HasCredentials(CurrentAuth)
     /\ Len(CurrentEnvelope.rcpt_tos) = 1
     /\ EligibleParts(CurrentEnvelope.content.body) = <<>>) =>
        (pc = "returned" /\ result = Some(InvalidContent) /\ send_body = None /\ res = None)

C4_Witness ==
    /\ InData /\ result = Some(InvalidContent)
    /\ LET body == CurrentEnvelope.content.body
       IN  /\ body.multipart /\ Len(body.parts) = 2
           /\ body.parts[1].ctype = "text/plain"
           /\ body.parts[2].ctype = "application/octet-stream"

\* C5: once the backend call has an outcome, the status line is fixed by it:
\* '250 OK' for status 200, '500 Internal server error code=[N] text=[B]'
\* for any other status N with body B, and exactly '500 Internal server
\* error' for an exception.
C5_ResultFollowsBackendOutcome ==
    (InData /\ res # None) =>
        /\ pc = "returned"
        /\ LET o == res[1] IN
           IF "exception" \in DOMAIN o THEN result = Some(<<"500 Internal server error">>)
           ELSE IF o.status_code = 200 THEN result = Some(<<"250 OK">>)
           ELSE result = Some(<<"500 Internal server error code=[", o.status_code,
                                "] text=[", o.text, "]">>)

C5_Witness ==
    /\ InData /\ res = Some([status_code |-> 404, text |-> "not found"])
    /\ result = Some(<<"500 Internal server error code=[", 404, "] text=[", "not found", "]">>)

\* C6: while one session's handle_DATA waits for the backend, every other
\* session can have its AUTH or its DATA handled.
C6_OtherSessionsProgressDuringPost ==
    (pc = "posting") =>
        \A t \in Sessions \ {running[1]} : ENABLED (Auth(t) \/ HandleDATA(t))

\* C7: a handle_DATA that has started the backend request eventually returns
\* a status line, also when the backend never answers.
C7_PostEventuallyReturns ==
    (pc = "posting") ~> (pc = "returned")

\* C8: the authenticator succeeds, carrying the credential pair, exactly when
\* the mechanism is LOGIN or PLAIN and the data is a login/password pair;
\* otherwise its result is unsuccessful and not handled, the session keeps no
\* credentials, and its handle_DATA is answered '530 Authentication required'.
C8_AuthenticatorContract ==
    /\ InAuth =>
          LET r == auth_result[1]
              supported == call[1].mechanism \in {"LOGIN", "PLAIN"}
              pair == HasCredentials(call[1].auth_data)
          IN  /\ r.success <=> (supported /\ pair)
              /\ r.success => (r.auth_data = call[1].auth_data /\ CurrentAuth = call[1].auth_data)
              /\ ~r.success => (~r.handled /\ CurrentAuth = None)
    /\ (InData /\ CurrentAuth = None) => result = Some(AuthRequired)

C8_Witness ==
    /\ InAuth
    /\ call[1].mechanism = "CRAM-MD5" /\ HasCredentials(call[1].auth_data)
    /\ ~auth_result[1].success /\ ~auth_result[1].handled
    /\ CurrentAuth = None

\* C9: to_name of the posted request is the display name of the last To
\* entry whose address is the recipient, and null when no entry has it.
C9_ToNameIsLastOccurrence ==
    (InData /\ pc = "posting") =>
        LET pieces == split_comma(decode_header(CurrentEnvelope.content.To).toks)
            rcpt == CurrentEnvelope.rcpt_tos[1]
            at == {i \in 1..Len(pieces) : parseaddr(pieces[i]).mail = rcpt}
        IN  IF at = {} THEN send_body[1].to_name = None
            ELSE \E i \in at :
                    /\ \A j \in at : j <= i
                    /\ send_body[1].to_name = Some(parseaddr(pieces[i]).name)

\* The recipient occurs twice in the To header, under two display names.
C9_Witness ==
    /\ InData /\ pc = "posting"
    /\ LET pieces == split_comma(decode_header(CurrentEnvelope.content.To).toks)
           rcpt == CurrentEnvelope.rcpt_tos[1]
       IN  /\ Len(pieces) = 2
           /\ parseaddr(pieces[1]).mail = rcpt /\ parseaddr(pieces[2]).mail = rcpt
           /\ parseaddr(pieces[1]).name # parseaddr(pieces[2]).name
           /\ send_body[1].to_name = Some(parseaddr(pieces[2]).name)

\* C10: handle_DATA always ends by returning one of the six status lines.
C10_AlwaysReturnsStatusLine ==
    InData =>
        /\ pc # "raised"
        /\ pc = "returned" =>
              \/ result \in {Some(Ok250), Some(AuthRequired), Some(OneRecipient),
                             Some(InvalidContent), Some(InternalError)}
              \/ /\ Len(result[1]) = 5
                 /\ result[1][1] = "500 Internal server error code=["
                 /\ result[1][3] = "] text=[" /\ result[1][5] = "]"

====
